---- MODULE Spec2Model ----
(***************************************************************************)
(* Model of the iterable AVL tree of src/index.ts: the node structure, the *)
(* height/balance primitives, the two rotations, insert, remove, get, the  *)
(* two traversals and the AVLTree handle that owns the root.               *)
(*                                                                         *)
(* A node is a record [val, left, right, height]; an absent node is        *)
(* Undefined.  The source mutates nodes in place; since every node has     *)
(* exactly one owner (its parent or the handle) the in-place updates are   *)
(* modelled as record updates returning the new subtree.  A dereference of *)
(* undefined (a TypeError in the running program) yields Thrown.           *)
(***************************************************************************)
EXTENDS Integers, Sequences, FiniteSets, TLC

\* tree:   the root the handle owns (let tree)
\* keyFn:  the key function the handle was built with
\* last:   the last call on the handle, with the root before it and what it
\*         did (see Call)
\* stored: history of the calls: for each key, the value the handle was
\*         asked to hold for it, or NotFound (see storedAfter)
VARIABLES tree, keyFn, last, stored

vars == <<tree, keyFn, last, stored>>

\* ----- bounds -----------------------------------------------------------
\* stored values are the numbers 0..MaxVal
MaxVal == 6
\* under the order-reversing key function they are the numbers 0..MaxNegVal
MaxNegVal == 3
\* longest iterable handed to the constructor
MaxItems == 3

\* ----- key functions ----------------------------------------------------
\* The key functions a handle is built with: the default identity, and two
\* user-supplied ones (x => Math.floor(x / 2), under which two values share
\* a key, and x => -x, which reverses the order).
KeyFns == {"identity", "half", "negate"}

Key(fn, v) ==
  CASE fn = "identity" -> v
    [] fn = "half" -> v \div 2
    [] fn = "negate" -> 0 - v

\* the values a handle built with key function fn is given
Values(fn) == IF fn = "negate" THEN 0..MaxNegVal ELSE 0..MaxVal

\* the keys get and remove are called with
Keys(fn) == {Key(fn, v) : v \in Values(fn)}

Max(a, b) == IF a > b THEN a ELSE b

\* ----- nodes ------------------------------------------------------------
Undefined == [undefined |-> TRUE]

Thrown == [thrown |-> "TypeError"]

height(node) == IF node = Undefined THEN 0 ELSE node.height

createNode(val, left, right) ==
  [val |-> val, left |-> left, right |-> right,
   height |-> 1 + Max(height(left), height(right))]

balanceFactor(node) ==
  IF node = Undefined THEN 0 ELSE height(node.left) - height(node.right)

\* ----- traversals -------------------------------------------------------
RECURSIVE traverse(_)
traverse(node) ==
  IF node = Undefined THEN <<>>
  ELSE (IF node.left # Undefined THEN traverse(node.left) ELSE <<>>)
       \o <<node.val>>
       \o (IF node.right # Undefined THEN traverse(node.right) ELSE <<>>)

\* traverseReversed with the two recursive calls in traverse's order
RECURSIVE traverseReversed_leftFirst(_)
traverseReversed_leftFirst(node) ==
  IF node = Undefined THEN <<>>
  ELSE (IF node.left # Undefined THEN traverseReversed_leftFirst(node.left) ELSE <<>>)
       \o <<node.val>>
       \o (IF node.right # Undefined THEN traverseReversed_leftFirst(node.right) ELSE <<>>)

RECURSIVE traverseReversed(_)
traverseReversed(node) ==
  IF node = Undefined THEN <<>>
  ELSE (IF node.right # Undefined THEN traverseReversed(node.right) ELSE <<>>)
       \o <<node.val>>
       \o (IF node.left # Undefined THEN traverseReversed(node.left) ELSE <<>>)

\* ----- rotations --------------------------------------------------------
\* leftRotate recomputing right.height before node.height
leftRotate_parentFirst(node) ==
  IF node = Undefined \/ node = Thrown THEN Thrown
  ELSE IF node.right = Undefined THEN Thrown
  ELSE LET right == node.right
           rightLeft == right.left
           n == [node EXCEPT !.right = rightLeft]
           h == 1 + Max(height(n), height(right.right))
       IN [right EXCEPT !.left = [n EXCEPT !.height = 1 + Max(height(node.left),
                                                               height(rightLeft))],
                        !.height = h]

\* node!.right and right!.left: the non-null assertions are erased at run
\* time, so reading a field of an absent node throws.
leftRotate(node) ==
  IF node = Undefined \/ node = Thrown THEN Thrown
  ELSE IF node.right = Undefined THEN Thrown
  ELSE LET right == node.right
           rightLeft == right.left
           n == [node EXCEPT !.right = rightLeft,
                             !.height = 1 + Max(height(node.left), height(rightLeft))]
       IN [right EXCEPT !.left = n,
                        !.height = 1 + Max(height(n), height(right.right))]

rightRotate(node) ==
  IF node = Undefined \/ node = Thrown THEN Thrown
  ELSE IF node.left = Undefined THEN Thrown
  ELSE LET left == node.left
           leftRight == left.right
           n == [node EXCEPT !.left = leftRight,
                             !.height = 1 + Max(height(leftRight), height(node.right))]
       IN [left EXCEPT !.right = n,
                       !.height = 1 + Max(height(left.left), height(n))]

\* The outcome of a call that returns a subtree: the subtree (or Thrown) and
\* the rotations the call performed, in order.
Outcome(node, rotations) == [node |-> node, rotations |-> rotations]

\* node.left = leftRotate(node.left); return rightRotate(node)
leftRightRotate(node) ==
  LET l == leftRotate(node.left)
  IN IF l = Thrown THEN Outcome(Thrown, <<"leftRotate">>)
     ELSE Outcome(rightRotate([node EXCEPT !.left = l]),
                  <<"leftRotate", "rightRotate">>)

\* node.right = rightRotate(node.right); return leftRotate(node)
rightLeftRotate(node) ==
  LET r == rightRotate(node.right)
  IN IF r = Thrown THEN Outcome(Thrown, <<"rightRotate">>)
     ELSE Outcome(leftRotate([node EXCEPT !.right = r]),
                  <<"rightRotate", "leftRotate">>)

\* ----- insert -----------------------------------------------------------
\* balanceAfterInsert with the comparisons of the two cases exchanged
balanceAfterInsert_swapped(node, inserted, key) ==
  IF node = Undefined THEN Outcome(node, <<>>)
  ELSE LET bf == balanceFactor(node)
       IN IF bf > 1
          THEN IF node.left = Undefined THEN Outcome(Thrown, <<>>)
               ELSE IF Key(key, inserted) > Key(key, node.left.val)
               THEN Outcome(rightRotate(node), <<"rightRotate">>)
               ELSE leftRightRotate(node)
          ELSE IF bf < -1
          THEN IF node.right = Undefined THEN Outcome(Thrown, <<>>)
               ELSE IF Key(key, inserted) < Key(key, node.right.val)
               THEN Outcome(leftRotate(node), <<"leftRotate">>)
               ELSE rightLeftRotate(node)
          ELSE Outcome(node, <<>>)

\* balanceAfterInsert without the right-heavy case
balanceAfterInsert_leftOnly(node, inserted, key) ==
  IF node = Undefined THEN Outcome(node, <<>>)
  ELSE LET bf == balanceFactor(node)
       IN IF bf > 1
          THEN IF node.left = Undefined THEN Outcome(Thrown, <<>>)
               ELSE IF Key(key, inserted) < Key(key, node.left.val)
               THEN Outcome(rightRotate(node), <<"rightRotate">>)
               ELSE leftRightRotate(node)
          ELSE Outcome(node, <<>>)

balanceAfterInsert(node, inserted, key) ==
  IF node = Undefined THEN Outcome(node, <<>>)
  ELSE LET bf == balanceFactor(node)
       IN IF bf > 1
          THEN IF node.left = Undefined THEN Outcome(Thrown, <<>>)
               ELSE IF Key(key, inserted) < Key(key, node.left.val)
               THEN Outcome(rightRotate(node), <<"rightRotate">>)
               ELSE leftRightRotate(node)
          ELSE IF bf < -1
          THEN IF node.right = Undefined THEN Outcome(Thrown, <<>>)
               ELSE IF Key(key, inserted) > Key(key, node.right.val)
               THEN Outcome(leftRotate(node), <<"leftRotate">>)
               ELSE rightLeftRotate(node)
          ELSE Outcome(node, <<>>)

\* insert overwriting the stored value when the key is already there
RECURSIVE insert_upsert(_, _, _)
insert_upsert(node, val, key) ==
  IF node = Undefined THEN Outcome(createNode(val, Undefined, Undefined), <<>>)
  ELSE LET valKey == Key(key, val)
           nodeKey == Key(key, node.val)
           l == IF valKey < nodeKey THEN insert_upsert(node.left, val, key)
                ELSE Outcome(node.left, <<>>)
           r == IF valKey > nodeKey THEN insert_upsert(node.right, val, key)
                ELSE Outcome(node.right, <<>>)
       IN IF l.node = Thrown THEN l
          ELSE IF r.node = Thrown THEN Outcome(Thrown, l.rotations \o r.rotations)
          ELSE LET n == [node EXCEPT !.val = IF valKey = nodeKey THEN val ELSE node.val,
                                     !.left = l.node, !.right = r.node,
                                     !.height = 1 + Max(height(l.node), height(r.node))]
                   b == balanceAfterInsert(n, val, key)
               IN Outcome(b.node, l.rotations \o r.rotations \o b.rotations)

RECURSIVE insert(_, _, _)
insert(node, val, key) ==
  IF node = Undefined THEN Outcome(createNode(val, Undefined, Undefined), <<>>)
  ELSE LET valKey == Key(key, val)
           nodeKey == Key(key, node.val)
           l == IF valKey < nodeKey THEN insert(node.left, val, key)
                ELSE Outcome(node.left, <<>>)
           r == IF valKey > nodeKey THEN insert(node.right, val, key)
                ELSE Outcome(node.right, <<>>)
       IN IF l.node = Thrown THEN l
          ELSE IF r.node = Thrown THEN Outcome(Thrown, l.rotations \o r.rotations)
          ELSE LET n == [node EXCEPT !.left = l.node, !.right = r.node,
                                     !.height = 1 + Max(height(l.node), height(r.node))]
                   b == balanceAfterInsert(n, val, key)
               IN Outcome(b.node, l.rotations \o r.rotations \o b.rotations)

\* ----- lookup -----------------------------------------------------------
\* get returns the stored value or undefined; the result is modelled as the
\* sequence <<value>> or the empty sequence for undefined.
NotFound == <<>>

RECURSIVE get(_, _, _)
get(node, keyF, key) ==
  IF node = Undefined THEN NotFound
  ELSE LET nodeKey == Key(keyF, node.val)
       IN IF key = nodeKey THEN <<node.val>>
          ELSE IF key > nodeKey THEN get(node.right, keyF, key)
          ELSE IF key < nodeKey THEN get(node.left, keyF, key)
          ELSE NotFound

RECURSIVE minNodeValue(_)
minNodeValue(node) ==
  IF node = Undefined THEN node
  ELSE IF node.left = Undefined THEN node
  ELSE minNodeValue(node.left)

\* ----- remove -----------------------------------------------------------
\* the end of remove recomputing the height but never rotating
balanceAfterRemove_noRotation(node) ==
  Outcome([node EXCEPT !.height = 1 + Max(height(node.left), height(node.right))], <<>>)

\* The rebalancing at the end of remove (lines 168-189), on the node whose
\* children are already updated.
balanceAfterRemove(node) ==
  LET n == [node EXCEPT !.height = 1 + Max(height(node.left), height(node.right))]
      bf == balanceFactor(n)
  IN IF bf > 1
     THEN IF balanceFactor(n.left) >= 0
          THEN Outcome(rightRotate(n), <<"rightRotate">>)
          ELSE leftRightRotate(n)
     ELSE IF bf < -1
     THEN IF balanceFactor(n.right) <= 0
          THEN Outcome(leftRotate(n), <<"leftRotate">>)
          ELSE rightLeftRotate(n)
     ELSE Outcome(n, <<>>)

\* val is compared with key(node.val) as it is: the handle passes a key,
\* the two-children branch passes temp.val, a stored value.
RECURSIVE remove(_, _, _)
remove(node, val, key) ==
  IF node = Undefined THEN Outcome(node, <<>>)
  ELSE LET nodeKey == Key(key, node.val)
       IN IF val < nodeKey
          THEN LET l == remove(node.left, val, key)
               IN IF l.node = Thrown THEN l
                  ELSE LET b == balanceAfterRemove([node EXCEPT !.left = l.node])
                       IN Outcome(b.node, l.rotations \o b.rotations)
          ELSE IF val > nodeKey
          THEN LET r == remove(node.right, val, key)
               IN IF r.node = Thrown THEN r
                  ELSE LET b == balanceAfterRemove([node EXCEPT !.right = r.node])
                       IN Outcome(b.node, r.rotations \o b.rotations)
          ELSE IF node.left = Undefined THEN Outcome(node.right, <<>>)
          ELSE IF node.right = Undefined THEN Outcome(node.left, <<>>)
          ELSE LET temp == minNodeValue(node.right)
                   r == remove(node.right, temp.val, key)
               IN IF r.node = Thrown THEN r
                  ELSE LET b == balanceAfterRemove([node EXCEPT !.val = temp.val,
                                                                !.right = r.node])
                       IN Outcome(b.node, r.rotations \o b.rotations)

\* ----- the handle -------------------------------------------------------
\* for (let item of args[0]) tree = insert(tree, item, keyFn)
RECURSIVE construct(_, _, _)
construct(t, items, key) ==
  IF items = <<>> THEN Outcome(t, <<>>)
  ELSE LET o == insert(t, Head(items), key)
       IN IF o.node = Thrown THEN o
          ELSE LET rest == construct(o.node, Tail(items), key)
               IN Outcome(rest.node, o.rotations \o rest.rotations)

\* What the handle has been asked to hold: for each key, the value of the
\* first insert under that key since the key was last removed.
RECURSIVE storedAfter(_, _, _)
storedAfter(s, items, key) ==
  IF items = <<>> THEN s
  ELSE LET k == Key(key, Head(items))
       IN storedAfter(IF s[k] = NotFound THEN [s EXCEPT ![k] = <<Head(items)>>] ELSE s,
                      Tail(items), key)

ItemSeqs(fn) == UNION {[1..n -> Values(fn)] : n \in 0..MaxItems}

\* The record of the last call on the handle: the operation, its argument,
\* the root before the call, the rotations performed, the value returned
\* (get only) and whether the call threw.
Call(op, arg, before, rotations, result, thrown) ==
  [op |-> op, arg |-> arg, before |-> before, rotations |-> rotations,
   result |-> result, thrown |-> thrown]

\* AVLTree(key), AVLTree(items), AVLTree(items, key)
Init ==
  \E fn \in KeyFns :
   \E items \in ItemSeqs(fn) :
    LET o == construct(Undefined, items, fn)
    IN /\ keyFn = fn
       /\ tree = IF o.node = Thrown THEN Undefined ELSE o.node
       /\ last = Call("construct", items, Undefined, o.rotations, NotFound,
                      o.node = Thrown)
       /\ stored = storedAfter([k \in Keys(fn) |-> NotFound], items, fn)

\* tree.insert(val)
Insert ==
  \E val \in Values(keyFn) :
    LET o == insert(tree, val, keyFn)
    IN /\ tree' = IF o.node = Thrown THEN tree ELSE o.node
       /\ last' = Call("insert", val, tree, o.rotations, NotFound, o.node = Thrown)
       /\ stored' = storedAfter(stored, <<val>>, keyFn)
       /\ UNCHANGED keyFn

\* tree.remove(key)
Remove ==
  \E k \in Keys(keyFn) :
    LET o == remove(tree, k, keyFn)
    IN /\ tree' = IF o.node = Thrown THEN tree ELSE o.node
       /\ last' = Call("remove", k, tree, o.rotations, NotFound, o.node = Thrown)
       /\ stored' = [stored EXCEPT ![k] = NotFound]
       /\ UNCHANGED keyFn

\* tree.get(key)
Get ==
  \E k \in Keys(keyFn) :
    /\ last' = Call("get", k, tree, <<>>, get(tree, keyFn, k), FALSE)
    /\ UNCHANGED <<tree, keyFn, stored>>

Next == Insert \/ Remove \/ Get

Spec == Init /\ [][Next]_vars

\* ----- measures over trees ----------------------------------------------
RECURSIVE trueHeight(_)
trueHeight(node) ==
  IF node = Undefined THEN 0
  ELSE 1 + Max(trueHeight(node.left), trueHeight(node.right))

Range(s) == {s[i] : i \in 1..Len(s)}

TypeOK == /\ keyFn \in KeyFns
          /\ last.op \in {"construct", "insert", "remove", "get"}

Abs(x) == IF x < 0 THEN 0 - x ELSE x

Reverse(s) == [i \in 1..Len(s) |-> s[Len(s) + 1 - i]]

\* how many times v occurs in the sequence s
Count(s, v) == Cardinality({i \in 1..Len(s) : s[i] = v})

\* the keys of the values of a sequence, in order
KeysOf(s) == [i \in 1..Len(s) |-> Key(keyFn, s[i])]

StrictlyIncreasing(s) == \A i \in 1..(Len(s) - 1) : s[i] < s[i + 1]

Distinct(s) == \A i, j \in 1..Len(s) : i # j => s[i] # s[j]

\* the key k is held by the tree t
Present(t, k) == \E i \in 1..Len(traverse(t)) : Key(keyFn, traverse(t)[i]) = k

\* the node of t whose key is k, found as get finds it
RECURSIVE nodeOf(_, _)
nodeOf(t, k) ==
  IF t = Undefined THEN Undefined
  ELSE IF k = Key(keyFn, t.val) THEN t
  ELSE IF k > Key(keyFn, t.val) THEN nodeOf(t.right, k)
  ELSE nodeOf(t.left, k)

Leaf(v) == [val |-> v, left |-> Undefined, right |-> Undefined, height |-> 1]

\* ----- C1 ---------------------------------------------------------------
\* the AVL balance condition at every node of a subtree
RECURSIVE Balanced(_)
Balanced(node) ==
  \/ node = Undefined
  \/ /\ Abs(trueHeight(node.left) - trueHeight(node.right)) <= 1
     /\ Balanced(node.left)
     /\ Balanced(node.right)

\* C1: after every sequence of inserts and removes (from an empty handle or
\* one built from an iterable) the true heights of the two subtrees of
\* every node differ by at most one.
C1_Balanced == Balanced(tree)

\* a remove that had to rotate twice, in a tree of five nodes or more
C1_Witness ==
  /\ last.op = "remove"
  /\ Len(last.rotations) >= 2
  /\ Len(traverse(last.before)) >= 5

\* ----- C2 ---------------------------------------------------------------
\* the search-tree order at every node of a subtree
RECURSIVE Ordered(_)
Ordered(node) ==
  \/ node = Undefined
  \/ /\ \A k \in Range(KeysOf(traverse(node.left))) : k < Key(keyFn, node.val)
     /\ \A k \in Range(KeysOf(traverse(node.right))) : Key(keyFn, node.val) < k
     /\ Ordered(node.left)
     /\ Ordered(node.right)

\* C2: for any key function, after every sequence of inserts and removes
\* all keys in the left subtree of a node are below the node's key and all
\* keys in its right subtree above it, so the ascending traversal is
\* strictly increasing by key (one value per key).
C2_BST ==
  /\ Ordered(tree)
  /\ StrictlyIncreasing(KeysOf(traverse(tree)))

\* ----- C3 ---------------------------------------------------------------
\* C3: after remove(k), get(k) is not-found and the traversal is one
\* shorter if k was present (two children or not), unchanged if k was
\* absent.
C3_RemoveCorrect ==
  last.op = "remove" =>
    /\ get(tree, keyFn, last.arg) = NotFound
    /\ Len(traverse(tree)) =
         Len(traverse(last.before)) - (IF Present(last.before, last.arg) THEN 1 ELSE 0)

\* ----- C4 ---------------------------------------------------------------
\* C4: get(k) is the value of the first insert under k since k was last
\* removed, and not-found if k was never inserted or has been removed and
\* not inserted again.
C4_Lookup == \A k \in Keys(keyFn) : get(tree, keyFn, k) = stored[k]

\* ----- C5 ---------------------------------------------------------------
\* C5: an insert under a key the tree already holds changes nothing: the
\* root, with every node's value, children and cached height, is the one
\* before the call, and so are get for that key and the traversal.
C5_DuplicateNoOp ==
  (last.op = "insert" /\ Present(last.before, Key(keyFn, last.arg))) =>
    /\ tree = last.before
    /\ get(tree, keyFn, Key(keyFn, last.arg))
         = get(last.before, keyFn, Key(keyFn, last.arg))
    /\ traverse(tree) = traverse(last.before)

\* an insert of another value under a key the tree already holds
C5_Witness ==
  /\ last.op = "insert"
  /\ Present(last.before, Key(keyFn, last.arg))
  /\ get(last.before, keyFn, Key(keyFn, last.arg)) # <<last.arg>>
  /\ Len(traverse(last.before)) >= 3

\* ----- C6 ---------------------------------------------------------------
\* the distinct numbers of a sequence in ascending order
RECURSIVE Ascending(_)
Ascending(S) ==
  IF S = {} THEN <<>>
  ELSE LET m == CHOOSE x \in S : \A y \in S : x <= y
       IN <<m>> \o Ascending(S \ {m})

\* C6: the reversed view yields exactly the reverse of the default
\* iteration; a tree built from an iterable of distinct comparable items
\* yields them ascending by default and descending through reversed.
C6_Reversed ==
  /\ traverseReversed(tree) = Reverse(traverse(tree))
  /\ (last.op = "construct" /\ keyFn = "identity" /\ Distinct(last.arg)) =>
       /\ traverse(tree) = Ascending(Range(last.arg))
       /\ traverseReversed(tree) = Reverse(Ascending(Range(last.arg)))

\* a handle just built from three distinct items given out of order
C6_Witness ==
  /\ last.op = "construct"
  /\ keyFn = "identity"
  /\ Len(last.arg) = 3
  /\ Distinct(last.arg)
  /\ last.arg[1] > last.arg[2]
  /\ last.arg[3] > last.arg[1]

\* ----- C7 ---------------------------------------------------------------
\* C7: no insert, remove or get raises an error: leftRotate is only called
\* on a node with a right child, rightRotate on a node with a left child,
\* and a rebalancing step only reads node.left.val or node.right.val of a
\* child that exists.
C7_NoThrow == last.thrown = FALSE

\* an insert into a tree of four nodes or more that rotated left then right
C7_Witness ==
  /\ last.op = "insert"
  /\ last.rotations = <<"leftRotate", "rightRotate">>
  /\ Len(traverse(last.before)) >= 4
  /\ last.thrown = FALSE

\* ----- C8 ---------------------------------------------------------------
\* the cached height is right at every node of a subtree
RECURSIVE HeightsCached(_)
HeightsCached(node) ==
  \/ node = Undefined
  \/ /\ node.height = 1 + Max(height(node.left), height(node.right))
     /\ node.height = trueHeight(node)
     /\ HeightsCached(node.left)
     /\ HeightsCached(node.right)

\* C8: every node's cached height is 1 + the larger of its children's
\* cached heights (absent child 0), which is the true height of its
\* subtree, also for the two nodes a rotation touches.
C8_HeightCache == HeightsCached(tree)

\* a remove that rotated, leaving a tree of height three
C8_Witness ==
  /\ last.op = "remove"
  /\ Len(last.rotations) >= 1
  /\ trueHeight(tree) = 3

\* ----- C9 ---------------------------------------------------------------
\* C9: for any key function remove(k) takes exactly the value keyed k out
\* of the traversal and leaves the number of occurrences of every other
\* value as it was (nothing changes when k is absent).
C9_RemoveFrame ==
  last.op = "remove" =>
    \A v \in Values(keyFn) :
      Count(traverse(tree), v) =
        Count(traverse(last.before), v)
          - (IF Key(keyFn, v) = last.arg /\ Count(traverse(last.before), v) > 0
             THEN 1 ELSE 0)

\* ----- C10 --------------------------------------------------------------
\* the tree and the rotations expected after inserting a, b, c in this order
\* (distinct keys) into an empty tree
ThreeInserted(a, b, c, t, rotations) ==
  LET ka == Key(keyFn, a)
      kb == Key(keyFn, b)
      kc == Key(keyFn, c)
      byKey == [k \in {ka, kb, kc} |-> IF k = ka THEN a ELSE IF k = kb THEN b ELSE c]
      order == Ascending({ka, kb, kc})
  IN /\ t = [val |-> byKey[order[2]], left |-> Leaf(byKey[order[1]]),
             right |-> Leaf(byKey[order[3]]), height |-> 2]
     /\ rotations = IF ka < kb /\ kb < kc THEN <<"leftRotate">>
                    ELSE IF ka > kb /\ kb > kc THEN <<"rightRotate">>
                    ELSE IF kb < kc /\ kc < ka THEN <<"leftRotate", "rightRotate">>
                    ELSE IF ka < kc /\ kc < kb THEN <<"rightRotate", "leftRotate">>
                    ELSE <<>>

\* C10: three values with distinct keys inserted into an empty tree, in any
\* order, give the median at the root with the smallest as left leaf and
\* the largest as right leaf; ascending order takes one left rotation,
\* descending one right rotation, large-small-middle a left-right and
\* small-large-middle a right-left double rotation.
C10_ThreeInserts ==
  /\ (/\ last.op = "construct"
      /\ Len(last.arg) = 3
      /\ Distinct(KeysOf(last.arg)))
       => ThreeInserted(last.arg[1], last.arg[2], last.arg[3], tree, last.rotations)
  /\ (/\ last.op = "insert"
      /\ Len(traverse(last.before)) = 2
      /\ Distinct(KeysOf(traverse(last.before) \o <<last.arg>>)))
       => LET a == last.before.val
              b == IF last.before.left = Undefined THEN last.before.right.val
                   ELSE last.before.left.val
          IN ThreeInserted(a, b, last.arg, tree, last.rotations)

\* a handle built from small, large, middle: the right-left double rotation
C10_Witness ==
  /\ last.op = "construct"
  /\ Len(last.arg) = 3
  /\ Key(keyFn, last.arg[1]) < Key(keyFn, last.arg[3])
  /\ Key(keyFn, last.arg[3]) < Key(keyFn, last.arg[2])
  /\ last.rotations = <<"rightRotate", "leftRotate">>

\* ----- the identity key function ----------------------------------------
\* Under the default key function a stored value is its own key, so the
\* value remove hands to its recursive call in the two-children case is the
\* successor's key: the four properties that fail for a user-supplied key
\* function hold for a handle keyed by identity.
IdentityKeyed_BST == keyFn = "identity" => C2_BST

IdentityKeyed_RemoveCorrect == keyFn = "identity" => C3_RemoveCorrect

IdentityKeyed_Lookup == keyFn = "identity" => C4_Lookup

IdentityKeyed_RemoveFrame == keyFn = "identity" => C9_RemoveFrame

\* a remove of a key held by a node with two children, under identity
IdentityKeyed_Witness ==
  /\ keyFn = "identity"
  /\ last.op = "remove"
  /\ nodeOf(last.before, last.arg) # Undefined
  /\ nodeOf(last.before, last.arg).left # Undefined
  /\ nodeOf(last.before, last.arg).right # Undefined

====
